---- MODULE Spec2Model ----
(***************************************************************************)
(* A model of the CHIP-8 interpreter class C8Interpreter (src/PySlow8.py)   *)
(* and of the driver loop main() that calls its methods.                    *)
(*                                                                         *)
(* Python lists are modelled as TLA+ sequences; the Python index i is the   *)
(* TLA+ index i + 1.  An IndexError that nothing catches ends the process:  *)
(* the variable raised records it and no method is called afterwards.       *)
(***************************************************************************)
EXTENDS Integers, Sequences, FiniteSets, TLC

VARIABLES memory, V, I, pc, gfx, draw_flag, delay_timer, sound_timer,
          stack, keys, prev_keys, running, screen, raised

vars == <<memory, V, I, pc, gfx, draw_flag, delay_timer, sound_timer,
          stack, keys, prev_keys, running, screen, raised>>

\* ------------------------------------------------------------------------
\* Program constants
\* ------------------------------------------------------------------------
MemSize == 4096
NumRegs == 16
NumKeys == 16
GfxWidth == 64
GfxHeight == 32
RomBase == 512
FontBase == 80

\* ------------------------------------------------------------------------
\* Bounds of the model
\* ------------------------------------------------------------------------
\* emulate_instruction is called with how_many in 0..MaxN
MaxN == 3

\* the longest run of instructions a property about a whole subroutine
\* follows
MaxRun == 8

\* ------------------------------------------------------------------------
\* Python integer operators on non-negative integers
\* ------------------------------------------------------------------------
RECURSIVE BitAnd(_, _)
BitAnd(a, b) ==
    IF a = 0 \/ b = 0 THEN 0
    ELSE (IF a % 2 = 1 /\ b % 2 = 1 THEN 1 ELSE 0) + 2 * BitAnd(a \div 2, b \div 2)

RECURSIVE BitOr(_, _)
BitOr(a, b) ==
    IF a = 0 THEN b
    ELSE IF b = 0 THEN a
    ELSE (IF a % 2 = 1 \/ b % 2 = 1 THEN 1 ELSE 0) + 2 * BitOr(a \div 2, b \div 2)

RECURSIVE BitXor(_, _)
BitXor(a, b) ==
    IF a = 0 THEN b
    ELSE IF b = 0 THEN a
    ELSE (IF a % 2 # b % 2 THEN 1 ELSE 0) + 2 * BitXor(a \div 2, b \div 2)

ShiftR(a, k) == a \div (2 ^ k)

ShiftL(a, k) == a * (2 ^ k)

Min(a, b) == IF a < b THEN a ELSE b

\* Python list indexing s[i] for an index known to be in range
At(s, i) == s[i + 1]

\* Python slice s[lo:hi] for 0 <= lo, 0 <= hi (both clamped to len(s))
Slice(s, lo, hi) == SubSeq(s, Min(lo, Len(s)) + 1, Min(hi, Len(s)))

\* Python slice assignment s[lo:hi] = t for 0 <= lo <= hi
SliceAssign(s, lo, hi, t) ==
    LET start == Min(lo, Len(s))
        stop  == Min(hi, Len(s))
    IN  SubSeq(s, 1, start) \o t \o SubSeq(s, stop + 1, Len(s))

Zeros(n) == [i \in 1..n |-> 0]

\* ------------------------------------------------------------------------
\* Construction: __init__, _load_rom, _load_fontset
\* ------------------------------------------------------------------------
fontset ==
    << 240, 144, 144, 144, 240,     \* 0
        32,  96,  32,  32, 112,     \* 1
       240,  16, 240, 128, 240,     \* 2
       240,  16, 240,  16, 240,     \* 3
       144, 144, 240,  16,  16,     \* 4
       240, 128, 240,  16, 240,     \* 5
       240, 128, 240, 144, 240,     \* 6
       240,  16,  32,  64,  64,     \* 7
       240, 144, 240, 144, 240,     \* 8
       240, 144, 240,  16, 240,     \* 9
       240, 144, 240, 144, 144,     \* A
       224, 144, 224, 144, 224,     \* B
       240, 128, 128, 128, 240,     \* C
       224, 144, 144, 144, 224,     \* D
       240, 128, 240, 128, 240,     \* E
       240, 128, 240, 128, 128 >>   \* F

\* the ROM fits: len(rom) <= len(memory) - 0x200, otherwise ValueError
RomFits(rom) == Len(rom) <= MemSize - RomBase

\* memory after _load_rom(rom) and _load_fontset()
LoadedMemory(rom) ==
    [a \in 1..MemSize |->
        IF a - 1 >= FontBase /\ a - 1 < FontBase + Len(fontset)
            THEN fontset[a - FontBase]
        ELSE IF a - 1 >= RomBase /\ a - 1 < RomBase + Len(rom)
            THEN rom[a - RomBase]
        ELSE 0]

\* ------------------------------------------------------------------------
\* The machine as emulate_instruction sees it: the lists it mutates in
\* place, its locals pc and I, and the fields it assigns through self.
\* steps counts the completed iterations of its loop.
\* ------------------------------------------------------------------------
Machine ==
    [memory |-> memory, V |-> V, I |-> I, pc |-> pc, gfx |-> gfx,
     draw_flag |-> draw_flag, delay_timer |-> delay_timer,
     sound_timer |-> sound_timer, stack |-> stack,
     raised |-> raised, steps |-> 0]

Keypad == [keys |-> keys, prev_keys |-> prev_keys]

\* an IndexError leaves the loop; what was mutated so far stays mutated
Raise(m) == [m EXCEPT !.raised = TRUE]

HasV(m, i) == i < Len(m.V)

SetV(m, i, v) == [m EXCEPT !.V[i + 1] = v]

\* V[0xF] = v
SetVF(m, v) == IF HasV(m, 15) THEN SetV(m, 15, v) ELSE Raise(m)

\* operand fields of an opcode
OpX(opcode) == ShiftR(BitAnd(opcode, 3840), 8)
OpY(opcode) == ShiftR(BitAnd(opcode, 240), 4)
OpN(opcode) == BitAnd(opcode, 15)
OpNN(opcode) == BitAnd(opcode, 255)
OpNNN(opcode) == BitAnd(opcode, 4095)

\* ------------------------------------------------------------------------
\* _draw_sprite_to_internal
\* ------------------------------------------------------------------------
\* mutant: the pixel is set, gfx[idx] |= 1
TogglePixel_or(d, idx) ==
    IF d.raised THEN d
    ELSE IF idx >= Len(d.gfx) THEN [d EXCEPT !.raised = TRUE]
    ELSE [d EXCEPT !.collision = BitOr(@, At(d.gfx, idx)),
                   !.gfx[idx + 1] = BitOr(@, 1)]

\* collision |= gfx[idx]; gfx[idx] ^= 1
TogglePixel(d, idx) ==
    IF d.raised THEN d
    ELSE IF idx >= Len(d.gfx) THEN [d EXCEPT !.raised = TRUE]
    ELSE [d EXCEPT !.collision = BitOr(@, At(d.gfx, idx)),
                   !.gfx[idx + 1] = BitXor(@, 1)]

\* if sprite_byte & mask: toggle gfx[offset + y_coord]
ToggleIf(d, sprite_byte, mask, idx) ==
    IF BitAnd(sprite_byte, mask) # 0 THEN TogglePixel(d, idx) ELSE d

\* one row of the fully unrolled loop (max_cols == 8)
UnrolledRow(d, y_coord, sprite_byte) ==
    LET p0 == ToggleIf(d,  sprite_byte, 128, y_coord)
        p1 == ToggleIf(p0, sprite_byte, 64, 1 + y_coord)
        p2 == ToggleIf(p1, sprite_byte, 32, 2 + y_coord)
        p3 == ToggleIf(p2, sprite_byte, 16, 3 + y_coord)
        p4 == ToggleIf(p3, sprite_byte, 8, 4 + y_coord)
        p5 == ToggleIf(p4, sprite_byte, 4, 5 + y_coord)
        p6 == ToggleIf(p5, sprite_byte, 2, 6 + y_coord)
        p7 == ToggleIf(p6, sprite_byte, 1, 7 + y_coord)
    IN  p7

\* mutant: the clipped loop toggles the pixels and leaves collision alone
RECURSIVE ClippedRow_nocollision(_, _, _, _, _)
ClippedRow_nocollision(d, col, max_cols, y_coord, sprite_byte) ==
    IF col >= max_cols THEN d
    ELSE ClippedRow_nocollision(
            IF BitAnd(ShiftR(sprite_byte, 7 - col), 1) # 0
                THEN [TogglePixel(d, col + y_coord) EXCEPT !.collision = d.collision]
                ELSE d,
            col + 1, max_cols, y_coord, sprite_byte)

\* one row of the loop that is not unrolled: for col in range(max_cols)
RECURSIVE ClippedRow(_, _, _, _, _)
ClippedRow(d, col, max_cols, y_coord, sprite_byte) ==
    IF col >= max_cols THEN d
    ELSE ClippedRow(
            IF BitAnd(ShiftR(sprite_byte, 7 - col), 1) # 0
                THEN TogglePixel(d, col + y_coord) ELSE d,
            col + 1, max_cols, y_coord, sprite_byte)

\* for row in range(max_rows), in either branch
RECURSIVE DrawRows(_, _, _, _, _, _, _, _)
DrawRows(d, row, max_rows, max_cols, x, y, II, mem) ==
    IF row >= max_rows \/ d.raised THEN d
    ELSE IF II + row >= Len(mem) THEN [d EXCEPT !.raised = TRUE]
    ELSE LET y_coord == (y + row) * GfxWidth + x
             sprite_byte == At(mem, II + row)
             next == IF max_cols = 8
                        THEN UnrolledRow(d, y_coord, sprite_byte)
                        ELSE ClippedRow(d, 0, max_cols, y_coord, sprite_byte)
         IN  DrawRows(next, row + 1, max_rows, max_cols, x, y, II, mem)

\* max_rows = min(n, 32 - y)
MaxRows(n, y) == Min(n, GfxHeight - y)

\* mutant: the columns are not clipped
MaxCols_noclip(x) == 8

\* max_cols = min(8, 64 - x)
MaxCols(x) == Min(8, GfxWidth - x)

\* mutant: draw_flag is set only when the draw changed a pixel
draw_sprite_to_internal_lazy(m, x0, y0, n, II) ==
    LET x == x0 % GfxWidth
        y == y0 % GfxHeight
        max_rows == MaxRows(n, y)
        max_cols == MaxCols(x)
        d == DrawRows([gfx |-> m.gfx, collision |-> 0, raised |-> FALSE],
                      0, max_rows, max_cols, x, y, II, m.memory)
        m1 == [m EXCEPT !.gfx = d.gfx]
        m2 == SetVF(m1, IF d.collision # 0 THEN 1 ELSE 0)
    IN  IF d.raised THEN Raise(m1)
        ELSE IF m2.raised THEN m2
        ELSE IF d.gfx # m.gfx THEN [m2 EXCEPT !.draw_flag = TRUE]
        ELSE m2

draw_sprite_to_internal(m, x0, y0, n, II) ==
    LET x == x0 % GfxWidth
        y == y0 % GfxHeight
        max_rows == MaxRows(n, y)
        max_cols == MaxCols(x)
        d == DrawRows([gfx |-> m.gfx, collision |-> 0, raised |-> FALSE],
                      0, max_rows, max_cols, x, y, II, m.memory)
        m1 == [m EXCEPT !.gfx = d.gfx]
        m2 == SetVF(m1, IF d.collision # 0 THEN 1 ELSE 0)
    IN  IF d.raised THEN Raise(m1)
        ELSE IF m2.raised THEN m2
        ELSE [m2 EXCEPT !.draw_flag = TRUE]

\* ------------------------------------------------------------------------
\* emulate_instruction: the branches of the opcode dispatch.  m.pc is the
\* local pc, already advanced past the opcode.
\* ------------------------------------------------------------------------
OpDXYN(m, opcode) ==
    IF ~HasV(m, OpX(opcode)) \/ ~HasV(m, OpY(opcode)) THEN Raise(m)
    ELSE draw_sprite_to_internal(m, At(m.V, OpX(opcode)), At(m.V, OpY(opcode)),
                                 OpN(opcode), m.I)

Skip(m) == [m EXCEPT !.pc = @ + 2]

Op4XNN(m, opcode) ==
    IF ~HasV(m, OpX(opcode)) THEN Raise(m)
    ELSE IF At(m.V, OpX(opcode)) # OpNN(opcode) THEN Skip(m) ELSE m

Op7XNN(m, opcode) ==
    LET x == OpX(opcode)
    IN  IF ~HasV(m, x) THEN Raise(m)
        ELSE SetV(m, x, BitAnd(At(m.V, x) + OpNN(opcode), 255))

\* mutant: the flag is set and the bitmap is left as it is
Op00E0_flagonly(m) == [m EXCEPT !.draw_flag = TRUE]

Op00E0(m) ==
    [m EXCEPT !.gfx = Zeros(GfxWidth * GfxHeight), !.draw_flag = TRUE]

\* mutant: a return with an empty stack is skipped
Op00EE_silent(m) ==
    IF Len(m.stack) = 0 THEN m
    ELSE [m EXCEPT !.pc = m.stack[Len(m.stack)],
                   !.stack = SubSeq(m.stack, 1, Len(m.stack) - 1)]

\* pc = stack.pop()
Op00EE(m) ==
    IF Len(m.stack) = 0 THEN Raise(m)
    ELSE [m EXCEPT !.pc = m.stack[Len(m.stack)],
                   !.stack = SubSeq(m.stack, 1, Len(m.stack) - 1)]

\* print(f"Unknown opcode: ...")
UnknownOpcode(m) == m

Op0NNN(m, opcode) ==
    IF opcode = 224 THEN Op00E0(m)
    ELSE IF opcode = 238 THEN Op00EE(m)
    ELSE UnknownOpcode(m)

Op1NNN(m, opcode) == [m EXCEPT !.pc = OpNNN(opcode)]

\* mutant: the address pushed is that of the call itself
Op2NNN_callsite(m, opcode) ==
    [m EXCEPT !.stack = Append(@, m.pc - 2), !.pc = OpNNN(opcode)]

Op2NNN(m, opcode) ==
    [m EXCEPT !.stack = Append(@, m.pc), !.pc = OpNNN(opcode)]

Op3XNN(m, opcode) ==
    IF ~HasV(m, OpX(opcode)) THEN Raise(m)
    ELSE IF At(m.V, OpX(opcode)) = OpNN(opcode) THEN Skip(m) ELSE m

Op5XY0(m, opcode) ==
    IF ~HasV(m, OpX(opcode)) \/ ~HasV(m, OpY(opcode)) THEN Raise(m)
    ELSE IF At(m.V, OpX(opcode)) = At(m.V, OpY(opcode)) THEN Skip(m) ELSE m

Op6XNN(m, opcode) ==
    IF ~HasV(m, OpX(opcode)) THEN Raise(m)
    ELSE SetV(m, OpX(opcode), OpNN(opcode))

Op9XY0(m, opcode) ==
    IF ~HasV(m, OpX(opcode)) \/ ~HasV(m, OpY(opcode)) THEN Raise(m)
    ELSE IF At(m.V, OpX(opcode)) # At(m.V, OpY(opcode)) THEN Skip(m) ELSE m

OpANNN(m, opcode) == [m EXCEPT !.I = OpNNN(opcode)]

OpBNNN(m, opcode) ==
    IF ~HasV(m, 0) THEN Raise(m)
    ELSE [m EXCEPT !.pc = OpNNN(opcode) + At(m.V, 0)]

\* rnd is the value of randint(0, 255)
OpCXNN(m, opcode, rnd) ==
    IF ~HasV(m, OpX(opcode)) THEN Raise(m)
    ELSE SetV(m, OpX(opcode), BitAnd(BitAnd(rnd, opcode), 255))

Op8XY0(m, x, y) == SetV(m, x, At(m.V, y))

Op8XY1(m, x, y) == SetVF(SetV(m, x, BitOr(At(m.V, x), At(m.V, y))), 0)

Op8XY2(m, x, y) == SetVF(SetV(m, x, BitAnd(At(m.V, x), At(m.V, y))), 0)

Op8XY3(m, x, y) == SetVF(SetV(m, x, BitXor(At(m.V, x), At(m.V, y))), 0)

\* mutant: VF is written before the sum
Op8XY4_flagfirst(m, x, y) ==
    LET overflow == IF At(m.V, x) + At(m.V, y) > 255 THEN 1 ELSE 0
        m1 == SetVF(m, overflow)
    IN  IF m1.raised THEN m1
        ELSE SetV(m1, x, BitAnd(At(m1.V, x) + At(m1.V, y), 255))

Op8XY4(m, x, y) ==
    LET overflow == IF At(m.V, x) + At(m.V, y) > 255 THEN 1 ELSE 0
    IN  SetVF(SetV(m, x, BitAnd(At(m.V, x) + At(m.V, y), 255)), overflow)

\* Python's & on a negative int is the two's complement one: (a - b) & 255
\* is (a - b) mod 256
\* mutant: the flag is V[x] > V[y]
Op8XY5_strict(m, x, y) ==
    LET overflow == IF At(m.V, x) > At(m.V, y) THEN 1 ELSE 0
    IN  SetVF(SetV(m, x, (At(m.V, x) - At(m.V, y)) % 256), overflow)

Op8XY5(m, x, y) ==
    LET overflow == IF At(m.V, x) >= At(m.V, y) THEN 1 ELSE 0
    IN  SetVF(SetV(m, x, (At(m.V, x) - At(m.V, y)) % 256), overflow)

\* mutant: VX is shifted in place, VY is not read
Op8XY6_inplace(m, x, y) ==
    LET overflow == BitAnd(At(m.V, x), 1)
    IN  SetVF(SetV(m, x, BitAnd(ShiftR(At(m.V, x), 1), 255)), overflow)

Op8XY6(m, x, y) ==
    LET m1 == SetV(m, x, At(m.V, y))
        overflow == BitAnd(At(m1.V, x), 1)
    IN  SetVF(SetV(m1, x, BitAnd(ShiftR(At(m1.V, x), 1), 255)), overflow)

Op8XY7(m, x, y) ==
    LET overflow == IF At(m.V, y) >= At(m.V, x) THEN 1 ELSE 0
    IN  SetVF(SetV(m, x, (At(m.V, y) - At(m.V, x)) % 256), overflow)

Op8XYE(m, x, y) ==
    LET m1 == SetV(m, x, At(m.V, y))
        overflow == ShiftR(BitAnd(At(m1.V, x), 128), 7)
    IN  SetVF(SetV(m1, x, BitAnd(ShiftL(At(m1.V, x), 1), 255)), overflow)

Op8XYN(m, opcode) ==
    LET last_nibble == BitAnd(opcode, 15)
        x == OpX(opcode)
        y == OpY(opcode)
    IN  IF last_nibble \notin {0, 1, 2, 3, 4, 5, 6, 7, 14} THEN UnknownOpcode(m)
        ELSE IF ~HasV(m, x) \/ ~HasV(m, y) THEN Raise(m)
        ELSE CASE last_nibble = 0 -> Op8XY0(m, x, y)
               [] last_nibble = 1 -> Op8XY1(m, x, y)
               [] last_nibble = 2 -> Op8XY2(m, x, y)
               [] last_nibble = 3 -> Op8XY3(m, x, y)
               [] last_nibble = 4 -> Op8XY4(m, x, y)
               [] last_nibble = 5 -> Op8XY5(m, x, y)
               [] last_nibble = 6 -> Op8XY6(m, x, y)
               [] last_nibble = 7 -> Op8XY7(m, x, y)
               [] last_nibble = 14 -> Op8XYE(m, x, y)

\* keys[V[x]]: an IndexError for V[x] > 15
OpEX9E(m, x, kp) ==
    IF ~HasV(m, x) \/ At(m.V, x) >= Len(kp.keys) THEN Raise(m)
    ELSE IF At(kp.keys, At(m.V, x)) # 0 THEN Skip(m) ELSE m

OpEXA1(m, x, kp) ==
    IF ~HasV(m, x) \/ At(m.V, x) >= Len(kp.keys) THEN Raise(m)
    ELSE IF At(kp.keys, At(m.V, x)) = 0 THEN Skip(m) ELSE m

OpEXNN(m, opcode, kp) ==
    LET nibbles == BitAnd(opcode, 255)
    IN  IF nibbles = 158 THEN OpEX9E(m, OpX(opcode), kp)
        ELSE IF nibbles = 161 THEN OpEXA1(m, OpX(opcode), kp)
        ELSE UnknownOpcode(m)

OpFX07(m, x) == IF HasV(m, x) THEN SetV(m, x, m.delay_timer) ELSE Raise(m)

\* mutant: the test reads keys[i] instead of not keys[i]
ReleasedKeys_held(kp) ==
    {i \in 0..(NumKeys - 1) : At(kp.prev_keys, i) = 1 /\ At(kp.keys, i) # 0}

\* the keys with prev_keys[i] == 1 and not keys[i]
ReleasedKeys(kp) ==
    {i \in 0..(NumKeys - 1) : At(kp.prev_keys, i) = 1 /\ At(kp.keys, i) = 0}

\* the first i of range(16) that passes the test
FirstReleased(kp) ==
    CHOOSE i \in ReleasedKeys(kp) : \A j \in ReleasedKeys(kp) : i <= j

\* mutant: pc is not moved back when no key was released
OpFX0A_norewind(m, x, kp) ==
    IF ReleasedKeys(kp) # {}
        THEN IF HasV(m, x) THEN SetV(m, x, FirstReleased(kp)) ELSE Raise(m)
        ELSE m

OpFX0A(m, x, kp) ==
    IF ReleasedKeys(kp) # {}
        THEN IF HasV(m, x) THEN SetV(m, x, FirstReleased(kp)) ELSE Raise(m)
        ELSE [m EXCEPT !.pc = @ - 2]

OpFX15(m, x) ==
    IF HasV(m, x) THEN [m EXCEPT !.delay_timer = At(m.V, x)] ELSE Raise(m)

OpFX18(m, x) ==
    IF HasV(m, x) THEN [m EXCEPT !.sound_timer = At(m.V, x)] ELSE Raise(m)

OpFX1E(m, x) ==
    IF HasV(m, x) THEN [m EXCEPT !.I = BitAnd(m.I + At(m.V, x), 4095)]
    ELSE Raise(m)

OpFX29(m, x) ==
    IF HasV(m, x) THEN [m EXCEPT !.I = FontBase + At(m.V, x) * 5]
    ELSE Raise(m)

\* memory[I], memory[I + 1], memory[I + 2] are assigned in this order
OpFX33(m, x) ==
    IF ~HasV(m, x) THEN Raise(m)
    ELSE LET vx == At(m.V, x)
             len == Len(m.memory)
             m1 == [m  EXCEPT !.memory[m.I + 1] = vx \div 100]
             m2 == [m1 EXCEPT !.memory[m.I + 2] = (vx \div 10) % 10]
             m3 == [m2 EXCEPT !.memory[m.I + 3] = vx % 10]
         IN  IF m.I >= len THEN Raise(m)
             ELSE IF m.I + 1 >= len THEN Raise(m1)
             ELSE IF m.I + 2 >= len THEN Raise(m2)
             ELSE m3

\* memory[I : I + x + 1] = V[: x + 1]; I += x + 1
OpFX55(m, x) ==
    [m EXCEPT !.memory = SliceAssign(m.memory, m.I, m.I + x + 1,
                                     Slice(m.V, 0, x + 1)),
              !.I = m.I + x + 1]

\* V[: x + 1] = memory[I : I + x + 1]; I += x + 1
OpFX65(m, x) ==
    [m EXCEPT !.V = SliceAssign(m.V, 0, x + 1,
                                Slice(m.memory, m.I, m.I + x + 1)),
              !.I = m.I + x + 1]

OpFXNN(m, opcode, kp) ==
    LET nibbles == BitAnd(opcode, 255)
        x == OpX(opcode)
    IN  CASE nibbles = 7 -> OpFX07(m, x)
          [] nibbles = 10 -> OpFX0A(m, x, kp)
          [] nibbles = 21 -> OpFX15(m, x)
          [] nibbles = 24 -> OpFX18(m, x)
          [] nibbles = 30 -> OpFX1E(m, x)
          [] nibbles = 41 -> OpFX29(m, x)
          [] nibbles = 51 -> OpFX33(m, x)
          [] nibbles = 85 -> OpFX55(m, x)
          [] nibbles = 101 -> OpFX65(m, x)
          [] OTHER -> UnknownOpcode(m)

\* the if / elif chain on first_nibble
Dispatch(m, opcode, kp, rnd) ==
    LET first_nibble == BitAnd(opcode, 61440)
    IN  CASE first_nibble = 53248 -> OpDXYN(m, opcode)
          [] first_nibble = 16384 -> Op4XNN(m, opcode)
          [] first_nibble = 28672 -> Op7XNN(m, opcode)
          [] first_nibble = 0     -> Op0NNN(m, opcode)
          [] first_nibble = 4096  -> Op1NNN(m, opcode)
          [] first_nibble = 8192  -> Op2NNN(m, opcode)
          [] first_nibble = 12288 -> Op3XNN(m, opcode)
          [] first_nibble = 20480 -> Op5XY0(m, opcode)
          [] first_nibble = 24576 -> Op6XNN(m, opcode)
          [] first_nibble = 32768 -> Op8XYN(m, opcode)
          [] first_nibble = 36864 -> Op9XY0(m, opcode)
          [] first_nibble = 40960 -> OpANNN(m, opcode)
          [] first_nibble = 45056 -> OpBNNN(m, opcode)
          [] first_nibble = 49152 -> OpCXNN(m, opcode, rnd)
          [] first_nibble = 57344 -> OpEXNN(m, opcode, kp)
          [] first_nibble = 61440 -> OpFXNN(m, opcode, kp)

\* opcode = (memory[pc] << 8) | memory[pc + 1], for pc + 1 < len(memory)
Fetch(m) == BitOr(ShiftL(At(m.memory, m.pc), 8), At(m.memory, m.pc + 1))

\* one iteration of the loop of emulate_instruction
Step(m, kp, rnd) ==
    IF m.raised THEN m
    ELSE IF m.pc + 1 >= Len(m.memory) THEN Raise(m)
    ELSE LET t == Dispatch([m EXCEPT !.pc = @ + 2], Fetch(m), kp, rnd)
         IN  IF t.raised THEN t ELSE [t EXCEPT !.steps = @ + 1]

\* the values randint(0, 255) is drawn from in the model
RandBytes == {0, 165, 255}

\* the outcomes of one iteration: one per value of randint, which only
\* CXNN calls
StepSet(m, kp) ==
    IF ~m.raised /\ m.pc + 1 < Len(m.memory) /\ BitAnd(Fetch(m), 61440) = 49152
        THEN {Step(m, kp, rnd) : rnd \in RandBytes}
        ELSE {Step(m, kp, 0)}

\* for _ in range(how_many): the machines the loop can end in
RECURSIVE RunSet(_, _, _)
RunSet(m, kp, how_many) ==
    IF how_many = 0 THEN {m}
    ELSE UNION {StepSet(t, kp) : t \in RunSet(m, kp, how_many - 1)}

\* ------------------------------------------------------------------------
\* ROM images: sequences of bytes
\* ------------------------------------------------------------------------
\* the two bytes of the instruction word with nibbles a b c d
Ins(a, b, c, d) == <<a * 16 + b, c * 16 + d>>

\* the two bytes of the instruction word op NNN for an address nnn
InsAddr(op, nnn) == <<op * 16 + (nnn \div 256), nnn % 256>>

\* the two bytes of the instruction word op X NN
InsImm(op, x, nn) == <<op * 16 + x, nn>>

\* a jump to itself, for a ROM prefix of the given length
Halt(prefix) == prefix \o InsAddr(1, RomBase + Len(prefix))

\* the concatenation of a sequence of byte sequences
RECURSIVE Cat(_)
Cat(parts) == IF parts = << >> THEN << >> ELSE Head(parts) \o Cat(Tail(parts))

\* the pairs <<a, b>> of register values the arithmetic ROMs load
ValPairs ==
    << <<10, 5>>, <<255, 1>>, <<128, 128>>, <<0, 0>>, <<1, 254>>,
       <<200, 100>>, <<100, 200>>, <<77, 178>>, <<255, 255>> >>

\* the pairs <<x, y>> of register indices the arithmetic ROMs use
RegPairs == { <<0, 1>>, <<2, 2>>, <<3, 15>>, <<15, 4>>, <<15, 15>>, <<14, 0>> }

\* for each pair of values: VX <- a; VY <- b; 8XYk
RomsArith(ks) ==
    {Halt(Cat([i \in 1..Len(ValPairs) |->
                InsImm(6, r[1], ValPairs[i][1]) \o InsImm(6, r[2], ValPairs[i][2])
                    \o Ins(8, r[1], r[2], k)])) :
        <<r, k>> \in RegPairs \X ks}

\* for each pair of values: VX <- a; VX += b
RomsAddImm ==
    {Halt(Cat([i \in 1..Len(ValPairs) |->
                InsImm(6, x, ValPairs[i][1]) \o InsImm(7, x, ValPairs[i][2])])) :
        x \in {0, 7, 15}}

\* the scenario 60 0A 61 05 80 14 is the start of one of these
RomsAdd == RomsArith({4}) \cup RomsAddImm

RomsSub == RomsArith({5, 7})

RomsShift == RomsArith({6, 14})

\* VX <- a; FX0A; VX += 1, and two key waits in a row
RomsKeyWait ==
    {Halt(InsImm(6, x, 7) \o Ins(15, x, 0, 10) \o InsImm(7, x, 1)) :
        x \in {0, 5, 15}}
    \cup {Halt(Ins(15, 0, 0, 10) \o Ins(15, 1, 0, 10))}

\* words that match no pattern of the opcode table
UnknownWords ==
    { <<0, 0>>, <<1, 35>>, <<0, 225>>, <<80, 17>>, <<80, 18>>, <<144, 17>>,
      <<144, 31>>, <<128, 24>>, <<128, 31>>, <<224, 0>>, <<225, 159>>,
      <<240, 0>>, <<241, 255>>, <<241, 8>> }

\* V0 <- a; V1 <- b; the word; V2 += 1
RomsUnknown ==
    {Halt(InsImm(6, 0, ab[1]) \o InsImm(6, 1, ab[2]) \o w \o InsImm(7, 2, 1)) :
        <<ab, w>> \in { <<3, 3>>, <<3, 4>> } \X UnknownWords}

\* ROMs whose instructions index a list out of its range, and ROMs with
\* jumps, calls and returns that do not
RomsInterp ==
    { \* V0 <- 16; skip if key V0 is pressed
      Halt(InsImm(6, 0, 16) \o Ins(14, 0, 9, 14)),
      \* V0 <- 1; skip if key V0 is pressed; skip if it is not
      Halt(InsImm(6, 0, 1) \o Ins(14, 0, 9, 14) \o Ins(14, 0, 10, 1)
            \o InsImm(7, 1, 1)),
      \* jump to 0xFFF
      InsAddr(1, 4095),
      \* V0 <- 255; jump to 0xFFE + V0
      InsImm(6, 0, 255) \o InsAddr(11, 4094),
      \* I <- 0xFFE; V0 <- 123; FX33
      Halt(InsAddr(10, 4094) \o InsImm(6, 0, 123) \o Ins(15, 0, 3, 3)),
      \* call 0x206; V1 += 1; halt; 0x206: V2 += 1; return
      InsAddr(2, RomBase + 6) \o InsImm(7, 1, 1) \o InsAddr(1, RomBase + 4)
            \o InsImm(7, 2, 1) \o Ins(0, 0, 14, 14),
      \* V0 <- 2; V1 <- 3; delay <- V0; sound <- V1; V2 <- delay; V3 <- random
      Halt(InsImm(6, 0, 2) \o InsImm(6, 1, 3) \o Ins(15, 0, 1, 5)
            \o Ins(15, 1, 1, 8) \o Ins(15, 2, 0, 7) \o InsImm(12, 3, 60)) }

\* a sprite of 15 rows, stored in the ROM behind the code
SpriteRows == <<255, 129, 60, 231, 24, 255, 1, 128, 85, 170, 255, 0, 15, 240, 153>>

\* I <- sprite; VX <- vx; VY <- vy; DXYN three times.  blank makes I point
\* at zeroed memory behind the sprite instead.
DrawRom(x, y, vx, vy, n, blank) ==
    Halt(InsAddr(10, RomBase + 14 + (IF blank THEN 32 ELSE 0))
            \o InsImm(6, x, vx) \o InsImm(6, y, vy)
            \o Ins(13, x, y, n) \o Ins(13, x, y, n) \o Ins(13, x, y, n))
        \o SpriteRows

\* I <- sprite; two draws of 5 rows at two origins that overlap
OverlapRom(vx1, vy1, vx2, vy2) ==
    Halt(InsAddr(10, RomBase + 16)
            \o InsImm(6, 0, vx1) \o InsImm(6, 1, vy1) \o Ins(13, 0, 1, 5)
            \o InsImm(6, 0, vx2) \o InsImm(6, 1, vy2) \o Ins(13, 0, 1, 5))
        \o SpriteRows

RomsDraw ==
    {DrawRom(0, 1, 0, 0, n, FALSE) : n \in {0, 1, 15}}
    \cup {DrawRom(0, 1, o[1], o[2], 5, FALSE) :
            o \in { <<60, 0>>, <<63, 31>>, <<56, 27>>, <<0, 30>>, <<64, 32>> }}
    \cup {DrawRom(0, 1, o[1], o[2], 15, FALSE) :
            o \in { <<57, 28>>, <<124, 62>>, <<255, 255>> }}
    \cup {DrawRom(r[1], r[2], 10, 3, 5, FALSE) :
            r \in { <<15, 1>>, <<0, 15>>, <<15, 15>> }}
    \cup {DrawRom(0, 1, 60, 30, 5, TRUE)}
    \cup {OverlapRom(0, 0, 4, 2), OverlapRom(60, 0, 62, 1)}

\* I <- sprite; VX <- vx; VY <- vy; draw; clear; a draw of height 0; two
\* draws; I <- zeroed memory; a draw that toggles nothing
ScreenRom(vx, vy) ==
    Halt(InsAddr(10, RomBase + 22)
            \o InsImm(6, 0, vx) \o InsImm(6, 1, vy) \o Ins(13, 0, 1, 5)
            \o Ins(0, 0, 14, 0) \o Ins(13, 0, 1, 0)
            \o Ins(13, 0, 1, 5) \o Ins(13, 0, 1, 5)
            \o InsAddr(10, RomBase + 22 + 32) \o Ins(13, 0, 1, 5))
        \o SpriteRows

\* I <- 0xFFF; V0 <- 255; F055 stores it in the last cell; V1 <- 0;
\* I <- 0xFFF; a draw of 2 rows, whose second row lies behind the memory
SpriteAtEndRom ==
    Halt(InsAddr(10, 4095) \o InsImm(6, 0, 255) \o Ins(15, 0, 5, 5)
            \o InsImm(6, 1, 0) \o InsAddr(10, 4095) \o Ins(13, 1, 1, 2))

RomsScreen ==
    {ScreenRom(o[1], o[2]) : o \in { <<0, 0>>, <<60, 30>> }}
    \cup {SpriteAtEndRom}

\* ROMs that move I and copy between the registers and the memory
RomsIndex ==
    { \* I <- 0xFFF; V0 <- 255; I += V0
      Halt(InsAddr(10, 4095) \o InsImm(6, 0, 255) \o Ins(15, 0, 1, 14)),
      \* V0 <- 255; I <- glyph V0; V1 <- 10; I <- glyph V1
      Halt(InsImm(6, 0, 255) \o Ins(15, 0, 2, 9) \o InsImm(6, 1, 10)
            \o Ins(15, 1, 2, 9)),
      \* V0..V2 <- 1, 2, 3; I <- 0x300; F255; I <- 0x300; V0..V2 += 1; F265
      Halt(InsImm(6, 0, 1) \o InsImm(6, 1, 2) \o InsImm(6, 2, 3)
            \o InsAddr(10, 768) \o Ins(15, 2, 5, 5) \o InsAddr(10, 768)
            \o InsImm(7, 0, 1) \o InsImm(7, 1, 1) \o InsImm(7, 2, 1)
            \o Ins(15, 2, 6, 5)),
      \* I <- 0xFFE; F155 fills the last two cells
      Halt(InsAddr(10, 4094) \o Ins(15, 1, 5, 5)),
      \* I <- 0xFFF; V0 <- 7; F155 reaches one cell behind the memory
      Halt(InsAddr(10, 4095) \o InsImm(6, 0, 7) \o Ins(15, 1, 5, 5)),
      \* I <- 0xFFF; FF65 reads one cell; V0 <- 5; V1 <- 1
      Halt(InsAddr(10, 4095) \o Ins(15, 15, 6, 5) \o InsImm(6, 0, 5)
            \o InsImm(6, 1, 1)),
      \* I <- 0xFFF; FF65 reads one cell; I <- 0x300; F355
      Halt(InsAddr(10, 4095) \o Ins(15, 15, 6, 5) \o InsAddr(10, 768)
            \o Ins(15, 3, 5, 5)),
      \* I <- 0xFFE; V0 <- 123; F033
      Halt(InsAddr(10, 4094) \o InsImm(6, 0, 123) \o Ins(15, 0, 3, 3)) }

\* ROMs of calls and returns
RomsStack ==
    { \* V0 <- 5; return, with no call before it
      Halt(InsImm(6, 0, 5) \o Ins(0, 0, 14, 14)),
      \* 0x200: call 0x206; V1 += 1; halt; 0x206: call 0x20C; V2 += 1;
      \* return; 0x20C: call 0x210; return; 0x210: V3 += 1; return
      InsAddr(2, RomBase + 6) \o InsImm(7, 1, 1) \o InsAddr(1, RomBase + 4)
            \o InsAddr(2, RomBase + 12) \o InsImm(7, 2, 1) \o Ins(0, 0, 14, 14)
            \o InsAddr(2, RomBase + 16) \o Ins(0, 0, 14, 14)
            \o InsImm(7, 3, 1) \o Ins(0, 0, 14, 14),
      \* 0x200: call 0x208; call 0x208; V1 += 1; halt; 0x208: I <- 0x300;
      \* F055; return
      InsAddr(2, RomBase + 8) \o InsAddr(2, RomBase + 8) \o InsImm(7, 1, 1)
            \o InsAddr(1, RomBase + 6)
            \o InsAddr(10, 768) \o Ins(15, 0, 5, 5) \o Ins(0, 0, 14, 14),
      \* 0x200: call 0x204; 0x202: return, the stack being empty again;
      \* 0x204: return
      InsAddr(2, RomBase + 4) \o Ins(0, 0, 14, 14) \o Ins(0, 0, 14, 14) }

\* ROMs that set and read the timers
RomsTimers ==
    { \* V0 <- 3; delay <- V0; V1 <- 2; sound <- V1; V0 <- 1; delay <- V0;
      \* V2 <- delay
      Halt(InsImm(6, 0, 3) \o Ins(15, 0, 1, 5) \o InsImm(6, 1, 2)
            \o Ins(15, 1, 1, 8) \o InsImm(6, 0, 1) \o Ins(15, 0, 1, 5)
            \o Ins(15, 2, 0, 7)),
      \* V0 <- 255; sound <- V0
      Halt(InsImm(6, 0, 255) \o Ins(15, 0, 1, 8)) }

\* ROMs that test a key and then wait for one
RomsKeyTest ==
    {Halt(InsImm(6, 0, k) \o Ins(14, 0, 9, 14) \o InsImm(7, 1, 1)
            \o Ins(14, 0, 10, 1) \o InsImm(7, 2, 1) \o Ins(15, 3, 0, 10)) :
        k \in {1, 15}}

\* ------------------------------------------------------------------------
\* The state after construction
\* ------------------------------------------------------------------------
InitWith(roms) ==
    /\ \E rom \in roms : RomFits(rom) /\ memory = LoadedMemory(rom)
    /\ V = Zeros(NumRegs)
    /\ I = 0
    /\ pc = RomBase
    /\ gfx = Zeros(GfxWidth * GfxHeight)
    /\ draw_flag = FALSE
    /\ delay_timer = 0
    /\ sound_timer = 0
    /\ stack = << >>
    /\ keys = Zeros(NumKeys)
    /\ prev_keys = Zeros(NumKeys)
    /\ running = TRUE
    /\ screen = {}
    /\ raised = FALSE

\* ------------------------------------------------------------------------
\* The methods main() calls
\* ------------------------------------------------------------------------
\* the snapshots pygame.key.get_pressed() yields in the model, as the sets
\* of pressed CHIP-8 keys
PressedSets == {{}, {15}, {1, 15}}

\* what one call of handle_input sees: the pressed keys, and whether a QUIT
\* event is in the queue (in the model, only with no key pressed)
Inputs == (PressedSets \X {FALSE}) \cup {<<{}, TRUE>>}

\* mutant: the snapshot overwrites keys and leaves prev_keys as it is
handle_input_nohistory(pressed, quit) ==
    /\ running /\ ~raised
    /\ running' = (IF quit THEN FALSE ELSE running)
    /\ keys' = [i \in 1..NumKeys |-> IF (i - 1) \in pressed THEN 1 ELSE 0]
    /\ UNCHANGED <<memory, V, I, pc, gfx, draw_flag, delay_timer,
                   sound_timer, stack, prev_keys, screen, raised>>

handle_input(pressed, quit) ==
    /\ running /\ ~raised
    /\ running' = (IF quit THEN FALSE ELSE running)
    /\ prev_keys' = keys
    /\ keys' = [i \in 1..NumKeys |-> IF (i - 1) \in pressed THEN 1 ELSE 0]
    /\ UNCHANGED <<memory, V, I, pc, gfx, draw_flag, delay_timer,
                   sound_timer, stack, screen, raised>>

\* mutant: the timers are decremented without the test > 0
update_timers_nofloor ==
    /\ ~raised
    /\ delay_timer' = delay_timer - 1
    /\ sound_timer' = sound_timer - 1
    /\ UNCHANGED <<memory, V, I, pc, gfx, draw_flag, stack, keys, prev_keys,
                   running, screen, raised>>

update_timers ==
    /\ ~raised
    /\ delay_timer' = IF delay_timer > 0 THEN delay_timer - 1 ELSE delay_timer
    /\ sound_timer' = IF sound_timer > 0 THEN sound_timer - 1 ELSE sound_timer
    /\ UNCHANGED <<memory, V, I, pc, gfx, draw_flag, stack, keys, prev_keys,
                   running, screen, raised>>

\* the machine a call leaves behind that started on m0 and ended its loop
\* on t: self.pc = pc and self.I = I after the loop, which an exception
\* never reaches
WrittenBack(m0, t) ==
    [t EXCEPT !.pc = IF t.raised THEN m0.pc ELSE t.pc,
              !.I = IF t.raised THEN m0.I ELSE t.I]

\* self.pc and self.I are written back after the loop, which an exception
\* never reaches
emulate_instruction(how_many) ==
    /\ ~raised
    /\ \E t \in RunSet(Machine, Keypad, how_many) :
        /\ memory' = t.memory
        /\ V' = t.V
        /\ gfx' = t.gfx
        /\ draw_flag' = t.draw_flag
        /\ delay_timer' = t.delay_timer
        /\ sound_timer' = t.sound_timer
        /\ stack' = t.stack
        /\ raised' = t.raised
        /\ pc' = WrittenBack(Machine, t).pc
        /\ I' = WrittenBack(Machine, t).I
    /\ UNCHANGED <<keys, prev_keys, running, screen>>

\* screen is the set of cells drawn as squares on the pygame surface: the
\* nonzero cells of gfx
draw_to_screen ==
    /\ ~raised
    /\ screen' = {i \in 0..(Len(gfx) - 1) : At(gfx, i) # 0}
    /\ draw_flag' = FALSE
    /\ UNCHANGED <<memory, V, I, pc, gfx, delay_timer, sound_timer, stack,
                   keys, prev_keys, running, raised>>

Next ==
    \/ \E in \in Inputs : handle_input(in[1], in[2])
    \/ update_timers
    \/ \E how_many \in 0..MaxN : emulate_instruction(how_many)
    \/ draw_to_screen

\* every ROM of the model
Roms ==
    RomsKeyWait \cup RomsInterp \cup RomsUnknown \cup RomsAdd \cup RomsSub
        \cup RomsShift \cup RomsDraw \cup RomsScreen
        \cup RomsIndex \cup RomsStack \cup RomsTimers
        \cup RomsKeyTest

Init == InitWith(Roms)
Spec == Init /\ [][Next]_vars

\* the same machine and driver, started on one family of ROMs
InitKeys == InitWith(RomsKeyWait)
SpecKeys == InitKeys /\ [][Next]_vars

InitInterp == InitWith(RomsInterp)
SpecInterp == InitInterp /\ [][Next]_vars

InitUnknown == InitWith(RomsUnknown)
SpecUnknown == InitUnknown /\ [][Next]_vars

InitAdd == InitWith(RomsAdd)
SpecAdd == InitAdd /\ [][Next]_vars

InitSub == InitWith(RomsSub)
SpecSub == InitSub /\ [][Next]_vars

InitShift == InitWith(RomsShift)
SpecShift == InitShift /\ [][Next]_vars

InitDraw == InitWith(RomsDraw)
SpecDraw == InitDraw /\ [][Next]_vars

InitScreen == InitWith(RomsScreen)
SpecScreen == InitScreen /\ [][Next]_vars

InitIndex == InitWith(RomsIndex)
SpecIndex == InitIndex /\ [][Next]_vars

InitStack == InitWith(RomsStack)
SpecStack == InitStack /\ [][Next]_vars

InitTimers == InitWith(RomsTimers)
SpecTimers == InitTimers /\ [][Next]_vars

InitKeyTest == InitWith(RomsKeyTest)
SpecKeyTest == InitKeyTest /\ [][Next]_vars

\* ------------------------------------------------------------------------
\* Properties
\* ------------------------------------------------------------------------
\* the next call of emulate_instruction can fetch an opcode
CanFetch == ~raised /\ pc + 1 < Len(memory)

\* the instruction word at address a
WordAt(a) == At(memory, a) * 256 + At(memory, a + 1)

Nib1(w) == w \div 4096
Nib2(w) == (w \div 256) % 16
Nib3(w) == (w \div 16) % 16
Nib4(w) == w % 16
LowByte(w) == w % 256

\* the outcomes of emulate_instruction(how_many) called in this state
Outcomes(how_many) == RunSet(Machine, Keypad, how_many)

\* t differs from the current machine in nothing but the count of steps
SameMachine(t) ==
    /\ t.memory = memory /\ t.V = V /\ t.I = I /\ t.pc = pc /\ t.gfx = gfx
    /\ t.draw_flag = draw_flag /\ t.delay_timer = delay_timer
    /\ t.sound_timer = sound_timer /\ t.stack = stack /\ t.raised = raised

AtFX0A == CanFetch /\ Nib1(WordAt(pc)) = 15 /\ LowByte(WordAt(pc)) = 10

\* the keys pressed in the previous snapshot and released in the current one
ReleaseEdge == {i \in 0..15 : At(prev_keys, i) = 1 /\ At(keys, i) = 0}

\* C1: with pc at an FX0A and no key going from pressed to released between
\* the two snapshots, emulate_instruction(n), n >= 1, leaves pc at that FX0A
\* and changes no register, I, memory, stack, timer or pixel.
C1_KeyWaitStalls ==
    (AtFX0A /\ ReleaseEdge = {}) =>
        \A n \in 1..MaxN : \A t \in Outcomes(n) : SameMachine(t) /\ t.steps = n

\* a stalled FX0A: VX still holds the 7 loaded before it, and key F is held
\* down over both snapshots
C1_Witness ==
    /\ AtFX0A /\ ReleaseEdge = {} /\ pc = RomBase + 2
    /\ At(V, Nib2(WordAt(pc))) = 7
    /\ At(keys, 15) = 1 /\ At(prev_keys, 15) = 1

\* C2: with pc at an FX0A and a release edge in the snapshots, the next
\* emulate_instruction(1) puts a key of that edge into VX (the key, when
\* there is only one) and leaves pc behind the FX0A.
C2_KeyWaitReleases ==
    (AtFX0A /\ ReleaseEdge # {}) =>
        \A t \in Outcomes(1) :
            /\ ~t.raised
            /\ At(t.V, Nib2(WordAt(pc))) \in ReleaseEdge
            /\ \A k \in ReleaseEdge :
                    ReleaseEdge = {k} => At(t.V, Nib2(WordAt(pc))) = k
            /\ t.pc = pc + 2
            /\ t.steps = 1

\* an FX0A has just taken key 1 of the edge {1, F} into VX
C2_Witness ==
    /\ ~raised /\ pc = RomBase + 4
    /\ Nib1(WordAt(pc - 2)) = 15 /\ LowByte(WordAt(pc - 2)) = 10
    /\ ReleaseEdge = {1, 15}
    /\ At(V, Nib2(WordAt(pc - 2))) = 1

\* C3: emulate_instruction(n) performs exactly n fetch-decode-execute steps
\* and returns normally, in every machine state and for every n >= 0.
C3_ExactlyNSteps ==
    ~raised => \A n \in 0..MaxN : \A t \in Outcomes(n) : t.steps = n /\ ~t.raised

\* the patterns of the opcode table
IsKnown(w) ==
    \/ w = 224 \/ w = 238
    \/ Nib1(w) \in {1, 2, 3, 4, 6, 7, 10, 11, 12, 13}
    \/ Nib1(w) \in {5, 9} /\ Nib4(w) = 0
    \/ Nib1(w) = 8 /\ Nib4(w) \in {0, 1, 2, 3, 4, 5, 6, 7, 14}
    \/ Nib1(w) = 14 /\ LowByte(w) \in {158, 161}
    \/ Nib1(w) = 15 /\ LowByte(w) \in {7, 10, 21, 24, 30, 41, 51, 85, 101}

\* C4: a word that matches no pattern of the opcode table advances pc by 2,
\* changes nothing else and does not abort the interpretation.
C4_UnknownIsNoOp ==
    (CanFetch /\ ~IsKnown(WordAt(pc))) =>
        \A t \in Outcomes(1) :
            /\ t.steps = 1
            /\ t.pc = pc + 2
            /\ SameMachine([t EXCEPT !.pc = pc])

IsByte(v) == v \in 0..255

At8XYN(k) == CanFetch /\ Nib1(WordAt(pc)) = 8 /\ Nib4(WordAt(pc)) = k

\* the register indices X and Y of the instruction at pc
XX == Nib2(WordAt(pc))
YY == Nib3(WordAt(pc))

\* the instruction word executed last, when pc is just behind it
Behind(w) == ~raised /\ pc >= RomBase + 2 /\ pc + 1 < Len(memory) /\ WordAt(pc - 2) = w

\* C5: after 7XNN or 8XY4 every register holds a byte; after 8XY4, VF is 1
\* iff VX + VY > 255 before it, and VX is the sum mod 256 unless X = F; the
\* program 60 0A 61 05 80 14 gives V0 = 15, VF = 0, pc = 0x206 in 3 steps.
C5_Add ==
    /\ ((CanFetch /\ Nib1(WordAt(pc)) = 7) \/ At8XYN(4)) =>
            \A t \in Outcomes(1) :
                /\ ~t.raised
                /\ Len(t.V) = 16
                /\ \A i \in 1..16 : IsByte(t.V[i])
    /\ At8XYN(4) =>
            \A t \in Outcomes(1) :
                /\ At(t.V, 15) = (IF At(V, XX) + At(V, YY) > 255 THEN 1 ELSE 0)
                /\ XX # 15 => At(t.V, XX) = (At(V, XX) + At(V, YY)) % 256
    /\ (/\ ~raised /\ pc = RomBase /\ V = Zeros(16)
        /\ SubSeq(memory, RomBase + 1, RomBase + 6) = <<96, 10, 97, 5, 128, 20>>) =>
            \A t \in Outcomes(3) :
                ~t.raised /\ At(t.V, 0) = 15 /\ At(t.V, 15) = 0 /\ t.pc = RomBase + 6

\* 8F44 has run with VF = 255 and V4 = 1: VF is the carry, not the sum
C5_Witness == Behind(36676) /\ At(V, 15) = 1 /\ At(V, 4) = 1

\* C6: after 8XY5, VF is 1 iff VX >= VY before it; after 8XY7, VF is 1 iff
\* VY >= VX before it; unless X = F, VX is the difference mod 256.
C6_Sub ==
    /\ At8XYN(5) =>
            \A t \in Outcomes(1) :
                /\ ~t.raised
                /\ At(t.V, 15) = (IF At(V, XX) >= At(V, YY) THEN 1 ELSE 0)
                /\ XX # 15 => At(t.V, XX) = (At(V, XX) - At(V, YY) + 256) % 256
    /\ At8XYN(7) =>
            \A t \in Outcomes(1) :
                /\ ~t.raised
                /\ At(t.V, 15) = (IF At(V, YY) >= At(V, XX) THEN 1 ELSE 0)
                /\ XX # 15 => At(t.V, XX) = (At(V, YY) - At(V, XX) + 256) % 256

\* 8015 has run with V0 = 100 and V1 = 200: a borrow
C6_Witness == Behind(32789) /\ At(V, 0) = 156 /\ At(V, 1) = 200 /\ At(V, 15) = 0

AtDXYN == CanFetch /\ Nib1(WordAt(pc)) = 13

\* the origin and the clipped extent of the DXYN at pc
OriginX == At(V, XX) % 64
OriginY == At(V, YY) % 32
LastCol == Min(OriginX + 7, 63)
LastRow == Min(OriginY + Nib4(WordAt(pc)) - 1, 31)

ColOf(p) == p % 64
RowOf(p) == p \div 64

Pixels == 0..2047

\* the pixels of the clipped area that lie under a set bit of the sprite at I
UnderSprite ==
    {p \in Pixels :
        /\ OriginX <= ColOf(p) /\ ColOf(p) <= LastCol
        /\ OriginY <= RowOf(p) /\ RowOf(p) <= LastRow
        /\ I + RowOf(p) - OriginY < Len(memory)
        /\ (At(memory, I + RowOf(p) - OriginY)
                \div (2 ^ (7 - (ColOf(p) - OriginX)))) % 2 = 1}

\* the DXYN at pc is followed by the same DXYN
AtDXYNTwice ==
    AtDXYN /\ pc + 3 < Len(memory) /\ WordAt(pc + 2) = WordAt(pc)

\* the second draw has the origin of the first
SameOrigin(t1) ==
    At(t1.V, XX) % 64 = OriginX /\ At(t1.V, YY) % 32 = OriginY

\* C8 as stated: two draws in succession restore the bitmap, and VF after
\* the second is 1 iff the sprite has a set bit inside the clipped area.
C8_DrawTwiceOriginal ==
    AtDXYNTwice =>
        \A t1 \in Outcomes(1) : \A t2 \in Outcomes(2) :
            (~t2.raised /\ SameOrigin(t1)) =>
                /\ t2.gfx = gfx
                /\ At(t2.V, 15) = (IF UnderSprite # {} THEN 1 ELSE 0)

\* C8, amended: two draws in succession restore the bitmap, and VF after
\* the second is 1 iff the second draw turned a pixel off, which is iff a
\* pixel under a set sprite bit inside the clipped area was off before the
\* first draw.
C8_DrawTwice ==
    AtDXYNTwice =>
        \A t1 \in Outcomes(1) : \A t2 \in Outcomes(2) :
            (~t2.raised /\ SameOrigin(t1)) =>
                /\ t2.gfx = gfx
                /\ At(t2.V, 15) =
                    (IF \E p \in Pixels : At(t1.gfx, p) = 1 /\ At(t2.gfx, p) = 0
                        THEN 1 ELSE 0)
                /\ At(t2.V, 15) =
                    (IF \E p \in UnderSprite : At(gfx, p) = 0 THEN 1 ELSE 0)

\* the same DXYN has run twice from the blank bitmap and the bitmap is blank
\* again, with VF = 1
C8_Witness ==
    /\ ~raised /\ pc >= RomBase + 4 /\ pc + 1 < Len(memory)
    /\ Nib1(WordAt(pc - 2)) = 13 /\ WordAt(pc - 4) = WordAt(pc - 2)
    /\ Nib4(WordAt(pc - 2)) = 15
    /\ gfx = Zeros(2048) /\ At(V, 15) = 1 /\ draw_flag

\* C9: a DXYN changes no pixel outside columns VX mod 64 .. min(+7, 63) and
\* rows VY mod 32 .. min(+N-1, 31), and touches no index outside the bitmap.
C9_Clipping ==
    AtDXYN =>
        \A t \in Outcomes(1) :
            /\ Len(t.gfx) = 2048
            /\ t.raised => I + Nib4(WordAt(pc)) > Len(memory)
            /\ \A p \in Pixels :
                    At(t.gfx, p) # At(gfx, p) =>
                        /\ OriginX <= ColOf(p) /\ ColOf(p) <= LastCol
                        /\ OriginY <= RowOf(p) /\ RowOf(p) <= LastRow

\* a sprite whose rows are 255 and 129 was drawn at x = 60, y = 0: columns
\* 60..63 of row 0 and column 60 of row 1 are on, column 0 of rows 1, 2 is off
C9_Witness ==
    /\ ~raised /\ pc >= RomBase + 2 /\ pc + 1 < Len(memory)
    /\ Nib1(WordAt(pc - 2)) = 13
    /\ At(V, Nib2(WordAt(pc - 2))) = 60 /\ At(V, Nib3(WordAt(pc - 2))) = 0
    /\ \A c \in 60..63 : At(gfx, c) = 1
    /\ At(gfx, 64 + 60) = 1 /\ At(gfx, 64) = 0 /\ At(gfx, 128) = 0

\* C10: after a DXYN, VF is 1 iff a pixel this draw toggled was on before
\* the draw, else 0.
C10_Collision ==
    AtDXYN =>
        \A t \in Outcomes(1) :
            ~t.raised =>
                At(t.V, 15) =
                    (IF \E p \in Pixels : At(gfx, p) = 1 /\ At(t.gfx, p) # 1
                        THEN 1 ELSE 0)

\* a draw through the clipped loop (x > 56) has ended with a collision
C10_Witness ==
    /\ ~raised /\ pc >= RomBase + 2 /\ pc + 1 < Len(memory)
    /\ Nib1(WordAt(pc - 2)) = 13
    /\ At(V, Nib2(WordAt(pc - 2))) % 64 > 56
    /\ At(V, 15) = 1

\* the cells of the bitmap that are on
Lit == {i \in 0..(Len(gfx) - 1) : At(gfx, i) # 0}

At00E0 == CanFetch /\ WordAt(pc) = 224

\* in a state of the running interpreter: a bitmap that differs from the one
\* drawn last has the flag set; no instruction clears the flag; every 00E0
\* and every DXYN that returns sets it
C11_Flagged ==
    ~raised =>
        /\ Lit # screen => draw_flag
        /\ \A n \in 0..MaxN : \A t \in Outcomes(n) : draw_flag => t.draw_flag
        /\ (AtDXYN \/ At00E0) =>
                \A t \in Outcomes(1) : ~t.raised => t.draw_flag

\* a step that clears the flag draws the bitmap as it is
C11_Consumed == (draw_flag /\ ~draw_flag') => (screen' = Lit /\ gfx' = gfx)

AtFX(nn) == CanFetch /\ Nib1(WordAt(pc)) = 15 /\ LowByte(WordAt(pc)) = nn

\* C12: in every reachable state 0 <= I <= 0xFFF, and FX1E, FX29, FX55 and
\* FX65 leave I masked to 12 bits.
C12_IndexIs12Bit ==
    /\ I \in 0..4095
    /\ (AtFX(30) \/ AtFX(41) \/ AtFX(85) \/ AtFX(101)) =>
            \A t \in Outcomes(1) : ~t.raised => t.I \in 0..4095

\* C13: in every reachable state the memory has exactly 4096 cells, each
\* holding a value in 0..255.
C13_MemoryKeepsSize ==
    /\ Len(memory) = MemSize
    /\ \A a \in 1..Len(memory) : IsByte(memory[a])

\* C14: in every reachable state the register file has exactly 16 registers,
\* each holding a value in 0..255.
C14_RegistersKeepShape ==
    /\ Len(V) = NumRegs
    /\ \A i \in 1..Len(V) : IsByte(V[i])

At00EE == CanFetch /\ WordAt(pc) = 238

At2NNN == CanFetch /\ Nib1(WordAt(pc)) = 2

\* the call at pc is still open after each of the first k instructions
OpenFor(k) ==
    \A j \in 1..k : \A u \in Outcomes(j) :
        ~u.raised /\ Len(u.stack) > Len(stack)

\* C19: 2NNN at address a pushes a + 2 and sets pc to NNN; 00EE sets pc to
\* the address pushed last and removes it; no other instruction changes the
\* stack; the return that matches a call resumes behind the call with the
\* stack as it was before the call.
C19_CallReturn ==
    /\ At2NNN =>
            \A t \in Outcomes(1) :
                /\ ~t.raised
                /\ t.stack = Append(stack, pc + 2)
                /\ t.pc = WordAt(pc) % 4096
    /\ (At00EE /\ stack # << >>) =>
            \A t \in Outcomes(1) :
                /\ ~t.raised
                /\ t.pc = stack[Len(stack)]
                /\ t.stack = SubSeq(stack, 1, Len(stack) - 1)
    /\ (CanFetch /\ ~At2NNN /\ ~At00EE) =>
            \A t \in Outcomes(1) : t.stack = stack
    /\ At2NNN =>
            \A n \in 2..MaxRun :
                OpenFor(n - 1) =>
                    \A t \in Outcomes(n) :
                        (~t.raised /\ Len(t.stack) = Len(stack)) =>
                            t.pc = pc + 2 /\ t.stack = stack

\* the innermost of three nested calls has returned to 0x20E: the return
\* addresses of the two outer calls are on the stack
C19_Witness ==
    /\ ~raised /\ pc = RomBase + 14
    /\ stack = <<RomBase + 2, RomBase + 8>>
    /\ At(V, 3) = 1

\* a timer after one tick
Ticked(timer) == IF timer > 0 THEN timer - 1 ELSE 0

\* both timers are bytes; FX15 sets the delay timer to VX, FX18 the sound
\* timer, and no other instruction changes a timer
C16_TimersSet ==
    /\ IsByte(delay_timer) /\ IsByte(sound_timer)
    /\ CanFetch =>
            \A t \in Outcomes(1) :
                /\ t.delay_timer =
                        (IF AtFX(21) /\ ~t.raised THEN At(V, XX) ELSE delay_timer)
                /\ t.sound_timer =
                        (IF AtFX(24) /\ ~t.raised THEN At(V, XX) ELSE sound_timer)

\* a step that executes no instruction and changes a timer is one tick of
\* both timers, and changes nothing else
C16_Tick ==
    (/\ UNCHANGED <<memory, V, I, pc, gfx, stack, raised>>
     /\ <<delay_timer, sound_timer>>' # <<delay_timer, sound_timer>>) =>
        /\ delay_timer' = Ticked(delay_timer)
        /\ sound_timer' = Ticked(sound_timer)
        /\ UNCHANGED <<draw_flag, keys, prev_keys, running, screen>>

\* both timers are bytes; no instruction lowers a timer, and only FX15 and
\* FX18 raise one
C16_TimersNeverLowered ==
    /\ IsByte(delay_timer) /\ IsByte(sound_timer)
    /\ CanFetch =>
            \A t \in Outcomes(1) :
                /\ t.delay_timer >= delay_timer
                /\ t.sound_timer >= sound_timer
                /\ t.delay_timer > delay_timer => AtFX(21)
                /\ t.sound_timer > sound_timer => AtFX(24)

\* C16 as stated: update_timers decrements each timer by exactly 1 when it
\* is > 0 and leaves it at 0 otherwise; both timers are always in 0..255; no
\* operation increases a timer except FX15 and FX18, and the execution of
\* instructions never decrements one.
C16_TimersOriginal == [](C16_TimersNeverLowered) /\ [][C16_Tick]_vars

\* C16, amended: update_timers decrements each timer by exactly 1 when it is
\* > 0 and leaves it at 0 otherwise; both timers are always in 0..255; FX15
\* sets the delay timer and FX18 the sound timer to VX, which can be lower
\* or higher than the timer was, and no other instruction changes a timer.
C16_Timers == [](C16_TimersSet) /\ [][C16_Tick]_vars

\* sound <- 2 has run and one tick later the sound timer is 1, while the
\* delay timer, set to 3 before, has reached 0 and stays there
C16_Witness ==
    /\ ~raised /\ pc = RomBase + 8 /\ WordAt(pc - 2) = 61720
    /\ delay_timer = 0 /\ sound_timer = 1

\* the key vector with exactly the keys of the set pressed
KeysOf(pressed) == [i \in 1..16 |-> IF (i - 1) \in pressed THEN 1 ELSE 0]

\* previous snapshots an instruction could have been given instead
OtherPrevKeys == {KeysOf(s) : s \in {{}, {1}, {15}, {1, 15}, 0..15}}

AtEX(nn) == CanFetch /\ Nib1(WordAt(pc)) = 14 /\ LowByte(WordAt(pc)) = nn

\* both vectors have 16 cells of 0 or 1; an instruction other than FX0A
\* does the same whatever prev_keys holds, and FX0A does not; EX9E skips iff
\* keys[VX] is set and EXA1 iff it is not
C17_KeysRead ==
    /\ Len(keys) = 16 /\ Len(prev_keys) = 16
    /\ \A i \in 1..16 : keys[i] \in {0, 1} /\ prev_keys[i] \in {0, 1}
    /\ (CanFetch /\ ~AtFX0A) =>
            \A p \in OtherPrevKeys :
                StepSet(Machine, [keys |-> keys, prev_keys |-> p]) = Outcomes(1)
    /\ AtFX0A =>
            \E p \in OtherPrevKeys :
                StepSet(Machine, [keys |-> keys, prev_keys |-> p]) # Outcomes(1)
    /\ AtEX(158) =>
            \A t \in Outcomes(1) :
                ~t.raised =>
                    t.pc = pc + (IF At(keys, At(V, XX)) # 0 THEN 4 ELSE 2)
    /\ AtEX(161) =>
            \A t \in Outcomes(1) :
                ~t.raised =>
                    t.pc = pc + (IF At(keys, At(V, XX)) = 0 THEN 4 ELSE 2)

\* a step that changes a key vector is a snapshot: prev_keys becomes what
\* keys was, keys the raw state, and the machine is left alone
C17_Snapshot ==
    (keys' # keys \/ prev_keys' # prev_keys) =>
        /\ prev_keys' = keys
        /\ \E in \in Inputs : keys' = KeysOf(in[1])
        /\ UNCHANGED <<memory, V, I, pc, gfx, draw_flag, delay_timer,
                       sound_timer, stack, screen, raised>>

\* C17: after handle_input, prev_keys is what keys was immediately before
\* and keys is the new raw state of all 16 keys; the vectors change in
\* handle_input only; EX9E and EXA1 depend on keys only, and FX0A is the
\* only instruction that reads prev_keys.
C17_KeyHistory == [](C17_KeysRead) /\ [][C17_Snapshot]_vars

\* key 1 was up in the previous snapshot and is down in the current one, and
\* E09E with V0 = 1 has skipped the instruction behind it
C17_Witness ==
    /\ ~raised /\ pc = RomBase + 6 /\ WordAt(RomBase + 2) = 57502
    /\ At(V, 0) = 1 /\ At(V, 1) = 0
    /\ keys = KeysOf({1, 15}) /\ prev_keys = KeysOf({15})

\* the bitmap has 2048 cells of 0 or 1; 00E0 turns every pixel off; a DXYN
\* that returns toggles each pixel under a set bit of the clipped sprite
\* once and no other pixel; no other instruction changes a pixel
C18_Toggled ==
    /\ Len(gfx) = 2048
    /\ \A p \in Pixels : At(gfx, p) \in {0, 1}
    /\ At00E0 => \A t \in Outcomes(1) : t.gfx = Zeros(2048)
    /\ AtDXYN =>
            \A t \in Outcomes(1) :
                ~t.raised =>
                    {p \in Pixels : At(t.gfx, p) # At(gfx, p)} = UnderSprite
    /\ (CanFetch /\ ~At00E0 /\ ~AtDXYN) =>
            \A t \in Outcomes(1) : t.gfx = gfx

\* a step that changes a pixel is neither a snapshot of the keys nor a draw
\* to the screen
C18_ByInstruction ==
    gfx' # gfx => UNCHANGED <<keys, prev_keys, running, screen>>

\* C18: the bitmap always has 2048 cells, each 0 or 1; a pixel is on iff
\* DXYN toggled it an odd number of times since the last 00E0 (or since the
\* start); nothing but 00E0 and DXYN changes a pixel.
C18_PixelParity == [](C18_Toggled) /\ [][C18_ByInstruction]_vars

\* the sprite was drawn, the bitmap cleared, and the sprite drawn once more
\* at (0, 0): the pixels under its set bits are on, the others off
C18_Witness ==
    /\ ~raised /\ pc = RomBase + 14 /\ WordAt(RomBase + 8) = 224
    /\ At(V, 0) = 0 /\ At(V, 1) = 0
    /\ At(gfx, 0) = 1 /\ At(gfx, 64) = 1 /\ At(gfx, 65) = 0 /\ At(gfx, 71) = 1
    /\ At(gfx, 5 * 64) = 0

\* the stored machine after a call that started on m0 and ended its loop on
\* t, the count of steps put aside
Stored(m0, t) == [WrittenBack(m0, t) EXCEPT !.steps = 0]

\* the stored machines after emulate_instruction(n)
Whole(n) == {Stored(Machine, t) : t \in Outcomes(n)}

\* the stored machines after emulate_instruction(a) and, where that call
\* returned, emulate_instruction(b)
Split(a, b) ==
    UNION {IF t1.raised
              THEN {Stored(Machine, t1)}
              ELSE {Stored(Stored(Machine, t1), t2) :
                        t2 \in RunSet(Stored(Machine, t1), Keypad, b)} :
           t1 \in Outcomes(a)}

\* no step of emulate_instruction(n) fails
Returns(n) == \A t \in Outcomes(n) : ~t.raised

\* C20: emulate_instruction(a + b) leaves the same stored machine as
\* emulate_instruction(a) followed by emulate_instruction(b), also when a
\* later step of the call fails.
C20_Batching ==
    ~raised =>
        \A a \in 0..MaxN : \A b \in 0..(MaxN - a) : Whole(a + b) = Split(a, b)

\* the same for the calls none of whose steps fails
C20_BatchingOfReturningCalls ==
    ~raised =>
        \A a \in 0..MaxN : \A b \in 0..(MaxN - a) :
            Returns(a + b) => Whole(a + b) = Split(a, b)

====
